---- MODULE Spec2Model ----
(***************************************************************************)
(* Model of googlecloudsdk/command_lib/run/messages_util.py: the functions  *)
(* that build the user messages of the `gcloud run` commands.               *)
(*                                                                         *)
(* A Python string is modelled as a sequence of text chunks (TLA+ strings); *)
(* the text it stands for is the concatenation of its chunks.  A template   *)
(* handed to str.format is such a sequence too: the chunk "{{" is an        *)
(* escaped opening brace, "}}" an escaped closing brace, and a chunk        *)
(* "{name}" a replacement field.  Literal text is cut into chunks at the    *)
(* places the properties below look for.                                    *)
(***************************************************************************)
EXTENDS Integers, Sequences, FiniteSets, TLC

VARIABLES call, args, result

vars == <<call, args, result>>

(***************************************************************************)
(* Bounds of the explored inputs.                                          *)
(***************************************************************************)
\* longest free-text input (names, namespaces, regions), in chunks
MaxLen == 2
\* longest list of regions handed to the multi-region message
MaxRegions == 2

(***************************************************************************)
(* Python values.                                                          *)
(***************************************************************************)
\* An optional attribute: Python's None, or a value.
None == [none |-> TRUE, v |-> <<>>]
Some(x) == [none |-> FALSE, v |-> x]

\* The outcome of a call: the returned string, or the exception that
\* propagates to the caller.
Returned(m) == [exc |-> "", msg |-> m]
Raised(e) == [exc |-> e, msg |-> <<>>]

\* Strings over an alphabet, at most n chunks long.
StrUpTo(alphabet, n) == UNION {[1..k -> alphabet] : k \in 0..n}

\* Concatenation of a sequence of strings.
RECURSIVE Concat(_)
Concat(ss) == IF ss = <<>> THEN <<>> ELSE Head(ss) \o Concat(Tail(ss))

\* str(n) for a non-negative int: its decimal digits.
DigitChunk(d) ==
    CASE d = 0 -> "0" [] d = 1 -> "1" [] d = 2 -> "2" [] d = 3 -> "3"
      [] d = 4 -> "4" [] d = 5 -> "5" [] d = 6 -> "6" [] d = 7 -> "7"
      [] d = 8 -> "8" [] d = 9 -> "9"
RECURSIVE IntStr(_)
IntStr(n) == IF n < 10 THEN <<DigitChunk(n)>>
             ELSE IntStr(n \div 10) \o <<DigitChunk(n % 10)>>

\* str(None)
NoneStr == <<"None">>

\* str(x) of an optional string, as str.format renders an argument.
OptStr(x) == IF x.none THEN NoneStr ELSE x.v

\* str(list of str): the repr of each element in single quotes, joined by
\* ", ", in brackets.  (No modelled string holds a quote or a backslash.)
RECURSIVE ReprItems(_)
ReprItems(l) ==
    IF l = <<>> THEN <<>>
    ELSE <<"'">> \o Head(l) \o <<"'">>
         \o (IF Tail(l) = <<>> THEN <<>> ELSE <<", ">>)
         \o ReprItems(Tail(l))
ListStr(l) == <<"[">> \o ReprItems(l) \o <<"]">>

\* str.format: escaped braces become braces, a replacement field becomes
\* the string of its keyword argument, all else is copied.
FormatChunk(c, kw) ==
    IF c = "{{" THEN <<"{">>
    ELSE IF c = "}}" THEN <<"}">>
    ELSE IF c \in DOMAIN kw THEN kw[c]
    ELSE <<c>>
Format(t, kw) == Concat([i \in 1..Len(t) |-> FormatChunk(t[i], kw)])

\* The console markup of the templates, as written in the source.
BOLD == <<"{{", "bold", "}}">>
RESET == <<"{{", "reset", "}}">>

(***************************************************************************)
(* GetRunJobMessage                                                        *)
(***************************************************************************)
\* A variant that writes the space whether or not there is a prefix.
ReleaseTrackTextAlwaysSpace(prefix) ==
    <<" ">> \o (IF ~prefix.none THEN prefix.v ELSE <<>>)

\* ' {}'.format(release_track.prefix) if release_track.prefix is not None
\* else ''
ReleaseTrackText(prefix) ==
    IF ~prefix.none THEN <<" ">> \o prefix.v ELSE <<>>

RunJobTemplate ==
    <<"\nTo execute this job", "{repeat}", ", use:\n",
      "gcloud", "{release_track}", " run jobs execute", " ", "{job_name}">>

\* release_track is None or a record with a prefix attribute.
GetRunJobMessage(release_track, job_name, repeat) ==
    IF release_track.none THEN Raised("AttributeError")
    ELSE Returned(Format(RunJobTemplate,
             [x \in {"{repeat}", "{release_track}", "{job_name}"} |->
                CASE x = "{repeat}" -> (IF repeat THEN <<" again">> ELSE <<>>)
                  [] x = "{release_track}" ->
                       ReleaseTrackText(release_track.v.prefix)
                  [] x = "{job_name}" -> job_name]))

(***************************************************************************)
(* GetSuccessMessageForMultiRegionSynchronousDeploy                        *)
(***************************************************************************)
MultiRegionHeader ==
    <<"Multi-Region Service [">> \o BOLD \o <<"{s}">> \o RESET \o <<"] ">>
    \o <<"has been deployed to regions ">> \o BOLD \o <<"{r}">> \o RESET
    \o <<".">> \o <<"\n", "Regional URLs:">>

RegionLineTemplate ==
    <<"\n">> \o BOLD \o <<"{url}">> \o RESET \o <<" (">> \o BOLD \o <<"{r}">>
    \o RESET \o <<")">>

\* 'MultiRegionReady/' + region
ConditionKey(region) == <<"MultiRegionReady/">> \o region

\* A variant that looks the region up without the 'MultiRegionReady/'
\* prefix.
RegionUrlBareKey(conditions, region) ==
    IF region \in DOMAIN conditions
    THEN OptStr(conditions[region].message)
    ELSE <<>>

\* service.conditions[condition].get('message') if condition in
\* service.conditions else ''.  A condition is a dict; dict.get gives None
\* for a key the dict lacks, and str.format renders None as 'None'.
RegionUrl(conditions, region) ==
    IF ConditionKey(region) \in DOMAIN conditions
    THEN OptStr(conditions[ConditionKey(region)].message)
    ELSE <<>>

\* The body of the loop, for one region.
RegionLine(conditions, region) ==
    Format(RegionLineTemplate,
           [x \in {"{r}", "{url}"} |->
              IF x = "{r}" THEN region ELSE RegionUrl(conditions, region)])

\* for region in regions: msg += ...
RECURSIVE RegionLines(_, _)
RegionLines(conditions, regions) ==
    IF regions = <<>> THEN <<>>
    ELSE RegionLine(conditions, Head(regions))
         \o RegionLines(conditions, Tail(regions))

GetSuccessMessageForMultiRegionSynchronousDeploy(service, regions) ==
    Returned(
        Format(MultiRegionHeader,
               [x \in {"{s}", "{r}"} |->
                  IF x = "{s}" THEN service.name ELSE ListStr(regions)])
        \o RegionLines(service.conditions, regions))

(***************************************************************************)
(* GetSuccessMessageForSynchronousDeploy                                   *)
(***************************************************************************)
SyncDeployTemplate ==
    <<"Service [">> \o BOLD \o <<"{serv}">> \o RESET \o <<"] ">>
    \o <<"revision [">> \o BOLD \o <<"{rev}">> \o RESET \o <<"] ">>
    \o <<"has been deployed and is serving ">>
    \o BOLD \o <<"{latest_percent_traffic}">> \o RESET
    \o <<" percent of traffic.">>

ServiceUrlTemplate == <<"\nService URL: ">> \o BOLD \o <<"{url}">> \o RESET

\* A variant that forgets the --no-traffic flag.
EffectivePercentIgnoringFlag(service, no_traffic) ==
    service.latest_percent_traffic

\* latest_percent_traffic = 0 if no_traffic else
\* service.latest_percent_traffic
EffectivePercent(service, no_traffic) ==
    IF no_traffic THEN 0 ELSE service.latest_percent_traffic

\* A variant that always reports the last-created revision.
ReportedRevisionAlwaysCreated(status, no_traffic) ==
    status.latestCreatedRevisionName

\* rev=latest_created if no_traffic else latest_ready
ReportedRevision(status, no_traffic) ==
    IF no_traffic THEN status.latestCreatedRevisionName
    ELSE status.latestReadyRevisionName

\* A variant that tests `latest_url is not None` instead of its truth.
TagUrlMessageIfNotNone(latest_url) ==
    IF ~latest_url.none
    THEN <<"\nThe revision can be reached directly at ">> \o latest_url.v
    ELSE <<>>

\* if latest_url: tag_url_message = '\nThe revision ... at {}'.format(...)
\* (None and '' are both falsy)
TagUrlMessage(latest_url) ==
    IF ~latest_url.none /\ latest_url.v # <<>>
    THEN Format(<<"\nThe revision can be reached directly at ", "{}">>,
                [x \in {"{}"} |-> latest_url.v])
    ELSE <<>>

\* service.status is None or a record: reading an attribute of None raises
\* AttributeError.
GetSuccessMessageForSynchronousDeploy(service, no_traffic) ==
    IF service.status.none THEN Raised("AttributeError")
    ELSE LET latest_percent_traffic == EffectivePercent(service, no_traffic)
             msg == SyncDeployTemplate
                    \o (IF latest_percent_traffic # 0 THEN ServiceUrlTemplate
                        ELSE <<>>)
         IN Returned(
                Format(msg,
                       [x \in {"{serv}", "{rev}", "{url}",
                               "{latest_percent_traffic}"} |->
                          CASE x = "{serv}" -> service.name
                            [] x = "{rev}" ->
                                 ReportedRevision(service.status.v, no_traffic)
                            [] x = "{url}" -> service.domain
                            [] x = "{latest_percent_traffic}" ->
                                 IntStr(latest_percent_traffic)])
                \o TagUrlMessage(service.latest_url))

(***************************************************************************)
(* GetStartDeployMessage                                                   *)
(***************************************************************************)
StartDeployTemplate ==
    <<"{operation}", " ", "{operator}", " ", "{resource_kind}", " ">>
    \o <<"[">> \o BOLD \o <<"{resource}">> \o RESET \o <<"] in ">>
    \o <<"{ns_label}", " [">> \o BOLD \o <<"{ns}">> \o RESET \o <<"]">>

\* A variant without the worker-pool case.
StartDeployNamespaceParentOnly(resource_ref, resource_kind_lower) ==
    resource_ref.parentName

\* resource_ref.projectsId if resource_kind_lower == 'worker pool'
\* else resource_ref.Parent().Name()
StartDeployNamespace(resource_ref, resource_kind_lower) ==
    IF resource_kind_lower = <<"worker pool">>
    THEN resource_ref.projectsId
    ELSE resource_ref.parentName

\* conn_context.location_label is appended to the template before
\* str.format runs over it.
GetStartDeployMessage(conn_context, resource_ref, operation, resource_kind_lower) ==
    Returned(
        Format(StartDeployTemplate \o conn_context.location_label,
               [x \in {"{operation}", "{operator}", "{resource_kind}",
                       "{ns_label}", "{resource}", "{ns}"} |->
                  CASE x = "{operation}" -> operation
                    [] x = "{operator}" -> conn_context.operator
                    [] x = "{resource_kind}" -> resource_kind_lower
                    [] x = "{ns_label}" -> conn_context.ns_label
                    [] x = "{resource}" -> resource_ref.name
                    [] x = "{ns}" ->
                         StartDeployNamespace(resource_ref,
                                              resource_kind_lower)]))

(***************************************************************************)
(* GetNotFoundMessage                                                      *)
(***************************************************************************)
\* A variant that writes the namespace in the region's place too.
NotFoundTemplateNsForRegion ==
    <<"{resource_kind}", " [", "{resource}", "] could not be found",
      " in ", "{ns_label}", " [", "{ns}", "] region [", "{ns}", "].">>

NotFoundTemplate ==
    <<"{resource_kind}", " [", "{resource}", "] could not be found",
      " in ", "{ns_label}", " [", "{ns}", "] region [", "{region}", "].">>

GetNotFoundMessage(conn_context, resource_ref, resource_kind) ==
    Returned(
        Format(NotFoundTemplate,
               [x \in {"{resource_kind}", "{resource}", "{ns_label}", "{ns}",
                       "{region}"} |->
                  CASE x = "{resource_kind}" -> resource_kind
                    [] x = "{resource}" -> resource_ref.name
                    [] x = "{ns_label}" -> conn_context.ns_label
                    [] x = "{ns}" -> resource_ref.parentName
                    [] x = "{region}" -> conn_context.region]))

(***************************************************************************)
(* GetExecutionCreatedMessage and _GetExecutionUiLink                      *)
(***************************************************************************)
ExecutionCreatedTemplate ==
    <<"\nView details about this execution by running:\n",
      "gcloud", "{release_track}", " run jobs executions describe", " ",
      "{execution_name}">>

ExecutionUiLinkTemplate ==
    <<"https://console.cloud.google.com/run/jobs/executions/details/",
      "{region}", "/", "{execution_name}", "/tasks?project=", "{project}">>

GetExecutionUiLink(execution) ==
    Format(ExecutionUiLinkTemplate,
           [x \in {"{region}", "{execution_name}", "{project}"} |->
              CASE x = "{region}" -> execution.region
                [] x = "{execution_name}" -> execution.name
                [] x = "{project}" -> execution.namespace])

\* A variant that tests only that there is a status.
HasLogUriStatusOnly(execution) == ~execution.status.none

\* execution.status and execution.status.logUri: a status object is
\* truthy; None and '' are falsy.
HasLogUri(execution) ==
    /\ ~execution.status.none
    /\ ~execution.status.v.logUri.none
    /\ execution.status.v.logUri.v # <<>>

GetExecutionCreatedMessage(release_track, execution) ==
    IF release_track.none THEN Raised("AttributeError")
    ELSE Returned(
             Format(ExecutionCreatedTemplate,
                    [x \in {"{release_track}", "{execution_name}"} |->
                       IF x = "{release_track}"
                       THEN ReleaseTrackText(release_track.v.prefix)
                       ELSE execution.name])
             \o (IF HasLogUri(execution)
                 THEN <<"\n\nOr visit ">> \o GetExecutionUiLink(execution)
                 ELSE <<>>))

(***************************************************************************)
(* GetBuildEquivalentForSourceRunMessage                                   *)
(***************************************************************************)
\* A variant that tests `pack is not None` instead of the truth of pack.
TruthyIfNotNone(p) == p.type # "NoneType"

\* The truth value of a Python object: None, False and an empty list are
\* falsy.
Truthy(p) ==
    CASE p.type = "NoneType" -> FALSE
      [] p.type = "bool" -> p.b
      [] p.type = "list" -> p.len > 0

\* build_flag = '--pack image=[IMAGE]' if pack else '--tag [IMAGE]'
BuildFlag(pack) ==
    IF Truthy(pack) THEN <<"--pack image=[IMAGE]">> ELSE <<"--tag [IMAGE]">>

\* The chunk that stands for the grave accent (U+0060), a character a TLA+
\* string cannot hold.
GRAVE == "(grave accent)"

BuildEquivalentTemplate ==
    <<"This command is equivalent to running ",
      GRAVE, "gcloud builds submit ", "{build_flag}", " ", "{source}", GRAVE,
      " and ",
      GRAVE, "gcloud run ", "{subgroup}", "deploy", " ", "{name}",
      " --image [IMAGE]", GRAVE, "\n">>

GetBuildEquivalentForSourceRunMessage(name, pack, source, subgroup) ==
    Returned(
        Format(BuildEquivalentTemplate,
               [x \in {"{name}", "{build_flag}", "{source}", "{subgroup}"} |->
                  CASE x = "{name}" -> name
                    [] x = "{build_flag}" -> BuildFlag(pack)
                    [] x = "{source}" -> source
                    [] x = "{subgroup}" -> subgroup]))

(***************************************************************************)
(* Inputs                                                                  *)
(***************************************************************************)
Alphabet == {"a", "b"}
Names == StrUpTo(Alphabet, MaxLen)
ShortNames == StrUpTo(Alphabet, 1)

\* calliope's release tracks: GA has no prefix.
Prefixes == {None, Some(<<"alpha">>), Some(<<"beta">>), Some(<<>>)}
ReleaseTracks == {None} \cup {Some([prefix |-> p]) : p \in Prefixes}

\* Regions deployed to, and the lists of them (repetitions included).
RegionNames == {<<"us-east1">>, <<"us-west1">>}
RegionLists == UNION {[1..k -> RegionNames] : k \in 0..MaxRegions}

\* A condition dict: its 'message' entry, None when the dict has none.
Urls == {<<"https://", "a">>, <<>>}
ConditionDicts == {[message |-> m] : m \in {None} \cup {Some(u) : u \in Urls}}
ConditionKeys == {ConditionKey(r) : r \in RegionNames} \cup {<<"Ready">>}
ConditionMaps == UNION {[K -> ConditionDicts] : K \in SUBSET ConditionKeys}

MultiRegionServices ==
    [name : {<<"a">>, <<>>}, conditions : ConditionMaps]

Revisions == {<<"a", "-00001">>, <<"a", "-00002">>, <<>>}
Statuses ==
    {None} \cup
    {Some(st) : st \in [latestReadyRevisionName : Revisions,
                        latestCreatedRevisionName : Revisions]}
Percents == {0, 7, 100}
OptUrls == {None} \cup {Some(u) : u \in Urls}
Services ==
    [name : {<<"a">>}, status : Statuses, latest_percent_traffic : Percents,
     latest_url : OptUrls, domain : Urls]

\* connection_context.ConnectionInfo: location_label is template text
\* (its markup braces are escaped), or empty.
Labels == {<<"namespace">>, <<"project">>, <<>>}
LocationLabels ==
    {<<>>, <<" region [">> \o BOLD \o <<"a">> \o RESET \o <<"]">>}
StartContexts ==
    [ns_label : Labels, location_label : LocationLabels,
     operator : {<<"Cloud Run">>}]
NotFoundContexts == [ns_label : Labels, region : ShortNames]
ResourceRefs == [name : ShortNames, projectsId : Names, parentName : Names]
Operations == {<<"Deploying container to">>, <<"Deploying">>}
KindsLower == {<<"service">>, <<"worker pool">>, <<"job">>, <<>>}
Kinds == {<<"Service">>, <<"Job">>, <<>>} \cup ShortNames

LogUris == {None, Some(<<>>), Some(<<"https://", "a">>)}
ExecutionStatuses == {None} \cup {Some([logUri |-> u]) : u \in LogUris}
Executions ==
    [name : ShortNames, region : ShortNames, namespace : ShortNames,
     status : ExecutionStatuses]

\* Values of the pack argument: None, a bool, or a list of that length.
Packs ==
    {[type |-> "NoneType", b |-> FALSE, len |-> 0]}
    \cup {[type |-> "bool", b |-> v, len |-> 0] : v \in BOOLEAN}
    \cup {[type |-> "list", b |-> FALSE, len |-> n] : n \in 0..MaxLen}
Sources == {<<".">>, <<>>} \cup ShortNames
Subgroups == {<<>>, <<"jobs ">>, <<"workers ">>}

(***************************************************************************)
(* The state machine: each behaviour is one call of one function on inputs *)
(* drawn from the sets above; the state records the call and its outcome.  *)
(***************************************************************************)
Init ==
    /\ call = "none"
    /\ args = <<>>
    /\ result = Returned(<<>>)

CallGetSuccessMessageForMultiRegionSynchronousDeploy ==
    /\ call = "none"
    /\ \E service \in MultiRegionServices, regions \in RegionLists :
        /\ call' = "GetSuccessMessageForMultiRegionSynchronousDeploy"
        /\ args' = [service |-> service, regions |-> regions]
        /\ result' =
             GetSuccessMessageForMultiRegionSynchronousDeploy(service, regions)

CallGetSuccessMessageForSynchronousDeploy ==
    /\ call = "none"
    /\ \E service \in Services, no_traffic \in BOOLEAN :
        /\ call' = "GetSuccessMessageForSynchronousDeploy"
        /\ args' = [service |-> service, no_traffic |-> no_traffic]
        /\ result' = GetSuccessMessageForSynchronousDeploy(service, no_traffic)

CallGetStartDeployMessage ==
    /\ call = "none"
    /\ \E conn_context \in StartContexts, resource_ref \in ResourceRefs,
          operation \in Operations, resource_kind_lower \in KindsLower :
        /\ call' = "GetStartDeployMessage"
        /\ args' = [conn_context |-> conn_context,
                    resource_ref |-> resource_ref,
                    operation |-> operation,
                    resource_kind_lower |-> resource_kind_lower]
        /\ result' = GetStartDeployMessage(conn_context, resource_ref,
                                           operation, resource_kind_lower)

CallGetNotFoundMessage ==
    /\ call = "none"
    /\ \E conn_context \in NotFoundContexts, resource_ref \in ResourceRefs,
          resource_kind \in Kinds :
        /\ call' = "GetNotFoundMessage"
        /\ args' = [conn_context |-> conn_context,
                    resource_ref |-> resource_ref,
                    resource_kind |-> resource_kind]
        /\ result' = GetNotFoundMessage(conn_context, resource_ref,
                                        resource_kind)

CallGetRunJobMessage ==
    /\ call = "none"
    /\ \E release_track \in ReleaseTracks, job_name \in Names,
          repeat \in BOOLEAN :
        /\ call' = "GetRunJobMessage"
        /\ args' = [release_track |-> release_track, job_name |-> job_name,
                    repeat |-> repeat]
        /\ result' = GetRunJobMessage(release_track, job_name, repeat)

CallGetExecutionCreatedMessage ==
    /\ call = "none"
    /\ \E release_track \in ReleaseTracks, execution \in Executions :
        /\ call' = "GetExecutionCreatedMessage"
        /\ args' = [release_track |-> release_track, execution |-> execution]
        /\ result' = GetExecutionCreatedMessage(release_track, execution)

CallGetBuildEquivalentForSourceRunMessage ==
    /\ call = "none"
    /\ \E name \in Names, pack \in Packs, source \in Sources,
          subgroup \in Subgroups :
        /\ call' = "GetBuildEquivalentForSourceRunMessage"
        /\ args' = [name |-> name, pack |-> pack, source |-> source,
                    subgroup |-> subgroup]
        /\ result' = GetBuildEquivalentForSourceRunMessage(name, pack, source,
                                                          subgroup)

Next ==
    \/ CallGetSuccessMessageForMultiRegionSynchronousDeploy
    \/ CallGetSuccessMessageForSynchronousDeploy
    \/ CallGetStartDeployMessage
    \/ CallGetNotFoundMessage
    \/ CallGetRunJobMessage
    \/ CallGetExecutionCreatedMessage
    \/ CallGetBuildEquivalentForSourceRunMessage

Spec == Init /\ [][Next]_vars

(***************************************************************************)
(* Reading a message: substring search over the returned string.           *)
(***************************************************************************)
\* The markup as it stands in a returned message.
Bold == <<"{", "bold", "}">>
Reset == <<"{", "reset", "}">>

\* sub occurs in s at position i.
IsAt(sub, s, i) ==
    /\ i >= 1
    /\ i + Len(sub) - 1 <= Len(s)
    /\ \A k \in 1..Len(sub) : s[i + k - 1] = sub[k]

\* The number of places of s where sub occurs (the empty string occurs at
\* every place, the end included).
Count(sub, s) == Cardinality({i \in 1..(Len(s) + 1) : IsAt(sub, s, i)})

\* The first place at or after from where sub occurs in s, 0 if none.
FindFrom(sub, s, from) ==
    IF \E i \in from..(Len(s) + 1) : IsAt(sub, s, i)
    THEN CHOOSE i \in from..(Len(s) + 1) :
             /\ IsAt(sub, s, i)
             /\ \A j \in from..(i - 1) : ~IsAt(sub, s, j)
    ELSE 0

\* The text of s between the first open and the first close after it;
\* <<"?">> when s has no such pair.
Between(s, open, close) ==
    LET a == FindFrom(open, s, 1)
        b == IF a = 0 THEN 0 ELSE FindFrom(close, s, a + Len(open))
    IN IF a = 0 \/ b = 0 THEN <<"?">>
       ELSE SubSeq(s, a + Len(open), b - 1)

\* s ends with suffix.
EndsWith(s, suffix) == IsAt(suffix, s, Len(s) - Len(suffix) + 1)

\* The pieces of s between its "\n" chunks.
RECURSIVE Lines(_)
Lines(s) ==
    LET nl == FindFrom(<<"\n">>, s, 1)
    IN IF nl = 0 THEN <<s>>
       ELSE <<SubSeq(s, 1, nl - 1)>> \o Lines(SubSeq(s, nl + 1, Len(s)))

\* The number a string of decimal digits denotes, -1 if it is none.
DigitValue(c) ==
    CASE c = "0" -> 0 [] c = "1" -> 1 [] c = "2" -> 2 [] c = "3" -> 3
      [] c = "4" -> 4 [] c = "5" -> 5 [] c = "6" -> 6 [] c = "7" -> 7
      [] c = "8" -> 8 [] c = "9" -> 9 [] OTHER -> -1
RECURSIVE StrInt(_)
StrInt(s) ==
    IF s = <<>> THEN -1
    ELSE LET d == DigitValue(s[Len(s)])
             rest == SubSeq(s, 1, Len(s) - 1)
         IN IF d < 0 THEN -1
            ELSE IF rest = <<>> THEN d
            ELSE IF StrInt(rest) < 0 THEN -1
            ELSE 10 * StrInt(rest) + d

\* A call of the function returned a message.
ReturnedFrom(f) == call = f /\ result.exc = ""

(***************************************************************************)
(* GetSuccessMessageForSynchronousDeploy                                   *)
(***************************************************************************)
SyncDeploy == "GetSuccessMessageForSynchronousDeploy"

\* The revision name and the traffic percentage a single-region message
\* reports.
RevisionShown(msg) == Between(msg, <<"] ", "revision [">> \o Bold, Reset)
PercentShown(msg) ==
    StrInt(Between(msg, <<"has been deployed and is serving ">> \o Bold,
                   Reset))

\* C1: with no_traffic=True the message reports the last-created revision
\* name and a traffic percentage of 0, whatever the service's
\* latest_percent_traffic is.
C1_NoTrafficReportsCreatedAndZero ==
    (ReturnedFrom(SyncDeploy) /\ args.no_traffic) =>
        /\ RevisionShown(result.msg) =
               args.service.status.v.latestCreatedRevisionName
        /\ PercentShown(result.msg) = 0

C1_Witness ==
    /\ ReturnedFrom(SyncDeploy)
    /\ args.no_traffic
    /\ args.service.latest_percent_traffic = 100
    /\ args.service.status.v.latestCreatedRevisionName = <<"a", "-00002">>
    /\ args.service.status.v.latestReadyRevisionName = <<"a", "-00001">>
    /\ RevisionShown(result.msg) = <<"a", "-00002">>

\* C10: with no_traffic=False the message reports the latest-ready revision
\* name and exactly the service's latest_percent_traffic.
C10_TrafficReportsReadyAndPercent ==
    (ReturnedFrom(SyncDeploy) /\ ~args.no_traffic) =>
        /\ RevisionShown(result.msg) =
               args.service.status.v.latestReadyRevisionName
        /\ PercentShown(result.msg) = args.service.latest_percent_traffic

C10_Witness ==
    /\ ReturnedFrom(SyncDeploy)
    /\ ~args.no_traffic
    /\ args.service.latest_percent_traffic = 100
    /\ args.service.status.v.latestCreatedRevisionName = <<"a", "-00002">>
    /\ args.service.status.v.latestReadyRevisionName = <<"a", "-00001">>
    /\ RevisionShown(result.msg) = <<"a", "-00001">>
    /\ PercentShown(result.msg) = 100

\* C6: the "Service URL" line is in the message exactly when the effective
\* traffic percentage (0 with no_traffic, else latest_percent_traffic) is
\* not zero, and the "reached directly at" line exactly when latest_url is
\* a non-empty string; with no_traffic the Service URL line is never there.
C6_UrlLinesPresence ==
    ReturnedFrom(SyncDeploy) =>
        LET percent == IF args.no_traffic THEN 0
                       ELSE args.service.latest_percent_traffic
            url == args.service.latest_url
            hasUrl == ~url.none /\ Len(url.v) > 0
        IN /\ Count(<<"\nService URL: ">>, result.msg) =
                  (IF percent # 0 THEN 1 ELSE 0)
           /\ (percent # 0 =>
                  Between(result.msg, <<"\nService URL: ">> \o Bold, Reset)
                      = args.service.domain)
           /\ Count(<<"\nThe revision can be reached directly at ">>,
                    result.msg) = (IF hasUrl THEN 1 ELSE 0)
           /\ (hasUrl =>
                  EndsWith(result.msg,
                           <<"\nThe revision can be reached directly at ">>
                           \o url.v))
           /\ (args.no_traffic =>
                  Count(<<"\nService URL: ">>, result.msg) = 0)

C6_Witness ==
    /\ ReturnedFrom(SyncDeploy)
    /\ args.no_traffic
    /\ args.service.latest_percent_traffic = 100
    /\ args.service.latest_url = Some(<<"https://", "a">>)
    /\ Count(<<"\nService URL: ">>, result.msg) = 0
    /\ Count(<<"\nThe revision can be reached directly at ">>, result.msg) = 1

(***************************************************************************)
(* GetSuccessMessageForMultiRegionSynchronousDeploy                        *)
(***************************************************************************)
MultiRegion == "GetSuccessMessageForMultiRegionSynchronousDeploy"

\* The per-region lines of a multi-region message: what follows the header
\* line and the "Regional URLs:" line.
RegionLinesShown(msg) == SubSeq(Lines(msg), 3, Len(Lines(msg)))

\* A per-region line showing url for region.
RegionLineText(url, region) ==
    Bold \o url \o Reset \o <<" (">> \o Bold \o region \o Reset \o <<")">>

\* The URL a per-region line shows.
UrlShown(line) == Between(line, Bold, Reset \o <<" (">> \o Bold)

\* C2: the message has exactly one per-region line for each element of
\* regions, in the order of regions; the line of region r shows the message
\* of condition "MultiRegionReady/r" when service.conditions has that key
\* (and the condition has a message), the empty string when it lacks the
\* key; the call never raises.
C2_OneLinePerRegionInOrder ==
    call = MultiRegion =>
        /\ result.exc = ""
        /\ Lines(result.msg)[2] = <<"Regional URLs:">>
        /\ Len(RegionLinesShown(result.msg)) = Len(args.regions)
        /\ \A i \in 1..Len(args.regions) :
              LET r == args.regions[i]
                  key == <<"MultiRegionReady/">> \o r
                  conds == args.service.conditions
                  line == RegionLinesShown(result.msg)[i]
              IN /\ EndsWith(line,
                             <<" (">> \o Bold \o r \o Reset \o <<")">>)
                 /\ (key \notin DOMAIN conds =>
                        line = RegionLineText(<<>>, r))
                 /\ (key \in DOMAIN conds /\ ~conds[key].message.none =>
                        line = RegionLineText(conds[key].message.v, r))

C2_Witness ==
    /\ call = MultiRegion
    /\ args.regions = <<<<"us-west1">>, <<"us-east1">>>>
    /\ DOMAIN args.service.conditions = {<<"MultiRegionReady/", "us-east1">>}
    /\ args.service.conditions[<<"MultiRegionReady/", "us-east1">>].message
           = Some(<<"https://", "a">>)
    /\ RegionLinesShown(result.msg)
           = <<RegionLineText(<<>>, <<"us-west1">>),
               RegionLineText(<<"https://", "a">>, <<"us-east1">>)>>

\* C9: an absent input field is substituted as the empty string or the
\* call raises AttributeError; in particular a condition
\* "MultiRegionReady/<region>" that is there but has no 'message' entry
\* gives an empty URL in the line of that region.
C9_AbsentFieldEmptyOrRaises ==
    /\ result.exc \in {"", "AttributeError"}
    /\ call = MultiRegion =>
          \A i \in 1..Len(args.regions) :
              LET key == <<"MultiRegionReady/">> \o args.regions[i]
                  conds == args.service.conditions
              IN (key \in DOMAIN conds /\ conds[key].message.none) =>
                     UrlShown(RegionLinesShown(result.msg)[i]) = <<>>

(***************************************************************************)
(* GetNotFoundMessage                                                      *)
(***************************************************************************)
NotFound == "GetNotFoundMessage"

\* The five values a "not found" message is built from.
NotFoundValues ==
    {args.resource_kind, args.resource_ref.name, args.conn_context.ns_label,
     args.resource_ref.parentName, args.conn_context.region}

\* C3 as stated: for every input, empty strings included, each of the
\* resource kind, the resource name, the namespace label, the namespace
\* value and the region occurs exactly once in the message.
C3_EachValueOccursOnce ==
    ReturnedFrom(NotFound) =>
        \A v \in NotFoundValues : Count(v, result.msg) = 1

\* C3 as amended: the message is the fixed text with each of the five
\* values written at exactly one place of its own, in the order kind, name,
\* namespace label, namespace value, region; so each value occurs in the
\* message at least once (more often when it is empty, or also occurs in
\* another value or in the fixed text).
C3_EachValueSubstitutedOnce ==
    ReturnedFrom(NotFound) =>
        /\ result.msg =
               args.resource_kind \o <<" [">> \o args.resource_ref.name
               \o <<"] could not be found", " in ">>
               \o args.conn_context.ns_label \o <<" [">>
               \o args.resource_ref.parentName \o <<"] region [">>
               \o args.conn_context.region \o <<"].">>
        /\ \A v \in NotFoundValues : Count(v, result.msg) >= 1

C3_Witness ==
    /\ ReturnedFrom(NotFound)
    /\ args.resource_kind = <<"Service">>
    /\ args.resource_ref.name = <<"a">>
    /\ args.resource_ref.parentName = <<"a">>
    /\ args.conn_context.ns_label = <<"project">>
    /\ args.conn_context.region = <<>>
    /\ Count(<<"a">>, result.msg) = 2

(***************************************************************************)
(* GetRunJobMessage                                                        *)
(***************************************************************************)
RunJob == "GetRunJobMessage"

\* C4: the text between "gcloud" and " run jobs execute" is one space and
\* the release track's prefix when the track has a prefix, and empty when
\* it has none; " again" follows "To execute this job" exactly when repeat
\* is True.
C4_PrefixSpaceAndAgain ==
    ReturnedFrom(RunJob) =>
        LET prefix == args.release_track.v.prefix
        IN /\ Between(result.msg, <<"gcloud">>, <<" run jobs execute">>) =
                  (IF prefix.none THEN <<>> ELSE <<" ">> \o prefix.v)
           /\ IsAt(<<"\nTo execute this job", " again">>, result.msg, 1)
                  <=> args.repeat
           /\ Count(<<" again">>, result.msg) =
                  (IF args.repeat THEN 1 ELSE 0)
           /\ EndsWith(result.msg,
                       <<" run jobs execute", " ">> \o args.job_name)

C4_Witness ==
    /\ ReturnedFrom(RunJob)
    /\ args.release_track.v.prefix.none
    /\ args.repeat
    /\ result.msg = <<"\nTo execute this job", " again", ", use:\n",
                      "gcloud", " run jobs execute", " ">> \o args.job_name

(***************************************************************************)
(* GetBuildEquivalentForSourceRunMessage                                   *)
(***************************************************************************)
BuildEquivalent == "GetBuildEquivalentForSourceRunMessage"

\* C5: the build flag of the message is "--pack image=[IMAGE]" when pack
\* is truthy and "--tag [IMAGE]" otherwise (an empty list, None and False
\* included); the subgroup stands, as given, right before "deploy", so an
\* empty subgroup gives "gcloud run deploy".
C5_BuildFlagAndSubgroup ==
    ReturnedFrom(BuildEquivalent) =>
        LET pack == args.pack
            truthy == \/ pack.type = "bool" /\ pack.b
                      \/ pack.type = "list" /\ pack.len > 0
        IN /\ Between(result.msg, <<"gcloud builds submit ">>,
                      <<" ">> \o args.source \o <<GRAVE>>) =
                  (IF truthy THEN <<"--pack image=[IMAGE]">>
                   ELSE <<"--tag [IMAGE]">>)
           /\ Count(<<"gcloud run ">> \o args.subgroup
                        \o <<"deploy", " ">> \o args.name
                        \o <<" --image [IMAGE]">>,
                    result.msg) = 1
           /\ (args.subgroup = <<>> =>
                  Count(<<"gcloud run ", "deploy">>, result.msg) = 1)

C5_Witness ==
    /\ ReturnedFrom(BuildEquivalent)
    /\ args.pack = [type |-> "list", b |-> FALSE, len |-> 0]
    /\ args.subgroup = <<"jobs ">>
    /\ Count(<<"--tag [IMAGE]">>, result.msg) = 1
    /\ Count(<<"gcloud run ", "jobs ", "deploy">>, result.msg) = 1

(***************************************************************************)
(* GetStartDeployMessage                                                   *)
(***************************************************************************)
StartDeploy == "GetStartDeployMessage"

\* The namespace value a "starting deploy" message shows.
NamespaceShown(msg, ns_label) ==
    Between(msg, <<"] in ">> \o ns_label \o <<" [">> \o Bold, Reset)

\* C7: the namespace value shown is resource_ref.projectsId when
\* resource_kind_lower is exactly "worker pool" and
\* resource_ref.Parent().Name() for every other kind; for a worker pool the
\* parent's name is not what is shown.
C7_WorkerPoolShowsProject ==
    ReturnedFrom(StartDeploy) =>
        LET shown == NamespaceShown(result.msg, args.conn_context.ns_label)
            ref == args.resource_ref
        IN IF args.resource_kind_lower = <<"worker pool">>
           THEN /\ shown = ref.projectsId
                /\ (ref.parentName # ref.projectsId =>
                       shown # ref.parentName)
           ELSE shown = ref.parentName

C7_Witness ==
    /\ ReturnedFrom(StartDeploy)
    /\ args.resource_kind_lower = <<"worker pool">>
    /\ args.resource_ref.projectsId = <<"a">>
    /\ args.resource_ref.parentName = <<"b">>
    /\ args.conn_context.location_label # <<>>
    /\ NamespaceShown(result.msg, args.conn_context.ns_label) = <<"a">>

(***************************************************************************)
(* GetExecutionCreatedMessage                                              *)
(***************************************************************************)
ExecutionCreated == "GetExecutionCreatedMessage"

\* C8: the console link is appended exactly when execution.status is there
\* and its logUri is a non-empty string; otherwise the message ends after
\* the "describe <execution name>" command, and no error is raised.
C8_ConsoleLinkIffLogUri ==
    (call = ExecutionCreated /\ ~args.release_track.none) =>
        LET e == args.execution
            hasLog == /\ ~e.status.none
                      /\ ~e.status.v.logUri.none
                      /\ Len(e.status.v.logUri.v) > 0
            describe == <<" run jobs executions describe", " ">> \o e.name
            link == <<"\n\nOr visit ",
                      "https://console.cloud.google.com/run/jobs/executions/details/">>
                    \o e.region \o <<"/">> \o e.name
                    \o <<"/tasks?project=">> \o e.namespace
        IN /\ result.exc = ""
           /\ Count(describe, result.msg) >= 1
           /\ IF hasLog
              THEN EndsWith(result.msg, describe \o link)
              ELSE /\ EndsWith(result.msg, describe)
                   /\ Count(<<"\n\nOr visit ">>, result.msg) = 0

C8_Witness ==
    /\ ReturnedFrom(ExecutionCreated)
    /\ args.execution.status = Some([logUri |-> Some(<<>>)])
    /\ args.execution.name = <<"a">>
    /\ EndsWith(result.msg, <<" run jobs executions describe", " ", "a">>)

====
